---- MODULE Spec2Model ----
(***************************************************************************)
(* Model of the genre-enrichment pipeline of the Goodreads dashboard       *)
(* (src/enrich.py): the resolver that selects the identifiers to fetch,    *)
(* the bounded pool of fetch tasks, the per-item fetch, and the merge of   *)
(* the collected results into a copy of the table; and of the parts of the *)
(* dashboard around it (src/dashboard.py, src/insights_functions.py): the  *)
(* progress callback, the session state, the genre chart and the reading   *)
(* streak.                                                                 *)
(*                                                                         *)
(* Python strings are sequences of one-character strings, so that          *)
(* str(), str.strip() and str.isdigit() are computed and not assumed.      *)
(***************************************************************************)
EXTENDS Integers, Sequences, FiniteSets, TLC

VARIABLES input, kw, host, run, pc, df, ids, task, results, ret, exc, gets,
          reported, cb, chart, session, streak

\* the variables of the dashboard and of the insight functions
dashVars == <<cb, chart, session, streak>>

vars == <<input, kw, host, run, pc, df, ids, task, results, ret, exc, gets,
          reported, cb, chart, session, streak>>

(***************************************************************************)
(* Bounds and program constants                                            *)
(***************************************************************************)
MaxRows == 2

MAX_WORKERS == 8

\* the largest count given to the progress callback
MaxCount == 7

\* the largest number of rows with a read date, and the last calendar day
MaxDates == 3

MaxDay == 4

(***************************************************************************)
(* Cell values: pandas missing value, Python int, str and list             *)
(***************************************************************************)
NA == [t |-> "na", v |-> <<>>]

IntV(n) == [t |-> "int", v |-> n]

StrV(s) == [t |-> "str", v |-> s]

ListV(l) == [t |-> "list", v |-> l]

Range(s) == {s[i] : i \in DOMAIN s}

DigitChars == <<"0", "1", "2", "3", "4", "5", "6", "7", "8", "9">>

Whitespace == {" "}

\* str(n) for a non-negative int
RECURSIVE IntToStr(_)
IntToStr(n) ==
    IF n < 10 THEN <<DigitChars[n + 1]>>
    ELSE IntToStr(n \div 10) \o <<DigitChars[(n % 10) + 1]>>

\* str(value) as applied cell by cell by Series.astype(str)
PyStr(val) ==
    CASE val.t = "int" -> IntToStr(val.v)
      [] val.t = "str" -> val.v
      [] val.t = "na" -> <<"n", "a", "n">>

\* characters that str.isdigit() accepts and that are no decimal digits,
\* such as U+00B2 SUPERSCRIPT TWO, written "^2" here
OtherDigitChars == {"^2"}

\* str.isdigit(): non-empty and every character a digit
isdigit(s) ==
    /\ Len(s) > 0
    /\ \A i \in DOMAIN s : s[i] \in Range(DigitChars) \cup OtherDigitChars

RECURSIVE lstrip(_)
lstrip(s) ==
    IF s # <<>> /\ Head(s) \in Whitespace THEN lstrip(Tail(s)) ELSE s

RECURSIVE rstrip(_)
rstrip(s) ==
    IF s # <<>> /\ s[Len(s)] \in Whitespace
    THEN rstrip(SubSeq(s, 1, Len(s) - 1))
    ELSE s

\* str.strip()
strip(s) == rstrip(lstrip(s))

(***************************************************************************)
(* Tables: a set of column names and the rows in index order.  A row keeps *)
(* a placeholder (NA) in the field of a column the table does not have.    *)
(***************************************************************************)
BookId == "Book Id"

Genres == "Genres"

Title == "Title"

Table(cols, rows) == [kind |-> "DataFrame", cols |-> cols, rows |-> rows]

\* an argument that is not a DataFrame
NotATable == [kind |-> "other", cols |-> {}, rows |-> <<>>]

\* no table (before the copy is made, before the call returns)
NoTable == [kind |-> "none", cols |-> {}, rows |-> <<>>]

\* identifier cells of the inputs: two ints, a str equal to str() of one of
\* them, and a missing identifier
IdValues == {IntV(7), IntV(12), StrV(<<"7">>), NA}

\* genre cells of the inputs: missing, lists of 0, 1 and 2 tags, a blank
\* string, the text of an empty list, a single tag as a string
GenreValues ==
    {NA, ListV(<<>>), ListV(<< <<"F">> >>), ListV(<< <<"F">>, <<"D">> >>),
     StrV(<<" ">>), StrV(<<" ", "[", "]">>), StrV(<<"F">>)}

\* further identifier cells: an empty str, a str with a letter, a str with
\* a superscript digit
OddIdValues == {StrV(<<>>), StrV(<<"x", "1">>), StrV(<<"1", "^2">>)}

\* the column sets of the inputs: with and without genre column, and without
\* identifier column
ColumnSets == {{BookId, Title, Genres}, {BookId, Title}, {Title, Genres}}

IdsOf(cols) == IF BookId \in cols THEN IdValues ELSE {NA}

GenresOf(cols) == IF Genres \in cols THEN GenreValues ELSE {NA}

\* the rows of a table of n rows, f giving the identifier and the genre cell
\* of each row; the third column holds the position of the row
Rows(n, f) ==
    [i \in 1..n |-> [id |-> f[i][1], genres |-> f[i][2], title |-> i]]

\* the argument of the call is a table of at most MaxRows rows, or no table
IsInput(x) ==
    \/ x = NotATable
    \/ \E cols \in ColumnSets : \E n \in 0..MaxRows :
          \E f \in [1..n -> IdsOf(cols) \X GenresOf(cols)] :
              x = Table(cols, Rows(n, f))

(***************************************************************************)
(* The resolver part of enrich_library                                     *)
(***************************************************************************)
\* df = df.copy(); df['Book Id'] = df['Book Id'].astype(str)
CopyAsStr(t) ==
    Table(t.cols, [i \in DOMAIN t.rows |->
                      [t.rows[i] EXCEPT !.id = StrV(PyStr(@))]])

\* if 'Genres' not in df.columns: df['Genres'] = pd.NA
WithGenres(t) ==
    IF Genres \in t.cols THEN t
    ELSE Table(t.cols \cup {Genres},
               [i \in DOMAIN t.rows |-> [t.rows[i] EXCEPT !.genres = NA]])

\* `if pd.isna(val):` pd.isna of a list is an array of booleans, whose truth
\* value is an error for two or more elements and, for no element, False or
\* an error depending on the numpy release (strict)
IsNaTruth(val, strict) ==
    CASE val.t = "na" -> "True"
      [] val.t = "str" -> "False"
      [] val.t = "list" ->
            IF Len(val.v) = 0 THEN (IF strict THEN "ValueError" ELSE "False")
            ELSE IF Len(val.v) = 1 THEN "False"
            ELSE "ValueError"

\* a classifier that takes every list for an empty one
_is_empty_genres_ListIsEmpty(val, strict) ==
    LET na == IsNaTruth(val, strict) IN
    IF na # "False" THEN na
    ELSE IF val.t = "list" THEN "True"
    ELSE IF val.t = "str" /\ (strip(val.v) = <<>> \/ strip(val.v) = <<"[", "]">>)
         THEN "True"
    ELSE "False"

_is_empty_genres(val, strict) ==
    LET na == IsNaTruth(val, strict) IN
    IF na # "False" THEN na
    ELSE IF val.t = "list" THEN (IF Len(val.v) = 0 THEN "True" ELSE "False")
    ELSE IF val.t = "str" /\ (strip(val.v) = <<>> \/ strip(val.v) = <<"[", "]">>)
         THEN "True"
    ELSE "False"

\* need_enrich_mask, one entry per row (t is the input table)
need_enrich_mask(t, strict) ==
    [i \in DOMAIN t.rows |->
        IF Genres \notin t.cols THEN "True"
        ELSE _is_empty_genres(t.rows[i].genres, strict)]

MaskRaises(t, strict) ==
    \E i \in DOMAIN t.rows : need_enrich_mask(t, strict)[i] = "ValueError"

\* Series.unique(): distinct values in order of first appearance
RECURSIVE Unique(_)
Unique(s) ==
    IF s = <<>> THEN <<>>
    ELSE LET r == Unique(SubSeq(s, 1, Len(s) - 1))
             x == s[Len(s)]
         IN IF x \in Range(r) THEN r ELSE Append(r, x)

RECURSIVE Masked(_, _)
Masked(rows, mask) ==
    IF rows = <<>> THEN <<>>
    ELSE LET r == Masked(SubSeq(rows, 1, Len(rows) - 1), SubSeq(mask, 1, Len(mask) - 1))
         IN IF mask[Len(rows)] = "True" THEN Append(r, rows[Len(rows)].id.v) ELSE r

\* a list of identifiers without .unique(): one entry per selected row
book_ids_list_PerRow(t, strict) ==
    SelectSeq(Masked(CopyAsStr(t).rows, need_enrich_mask(t, strict)), isdigit)

\* book_ids_list of lines 70-71 (t is the input table)
book_ids_list(t, strict) ==
    SelectSeq(Unique(Masked(CopyAsStr(t).rows, need_enrich_mask(t, strict))), isdigit)

(***************************************************************************)
(* The per-item fetch                                                      *)
(***************************************************************************)
\* what one task meets: a response (status, texts of the genre elements of
\* the document), an exception raised inside the try block (connection
\* error, timeout, parser or decoding error), or an exception that leaves
\* the task and is raised again by future.result()
Resp(status, body) == [k |-> "resp", status |-> status, body |-> body]

TryError == [k |-> "error", status |-> 0, body |-> <<>>]

Fault == [k |-> "fault", status |-> 0, body |-> <<>>]

\* the host accepts the request and never answers
NoAnswer == [k |-> "silent", status |-> 0, body |-> <<>>]

NoOutcome == [k |-> "none", status |-> 0, body |-> <<>>]

HostOutcomes ==
    {Resp(200, << <<" ", "S">>, <<"T">> >>), Resp(200, <<>>),
     Resp(304, << <<"S">> >>), Resp(404, << <<"S">> >>),
     TryError, Fault, NoAnswer}

\* Response.raise_for_status() raises HTTPError for 4xx and 5xx
RaisesForStatus(status) == status >= 400 /\ status < 600

\* the return value of scrape_book_data
scrape_book_data(book_id, o) ==
    IF o.k = "resp" /\ ~RaisesForStatus(o.status)
    THEN <<book_id, ListV([i \in DOMAIN o.body |-> strip(o.body[i])])>>
    ELSE <<book_id, ListV(<<>>)>>

(***************************************************************************)
(* The state machine of one call of enrich_library                         *)
(***************************************************************************)
\* no callback invoked, no chart drawn, no dashboard session, no streak
\* computed
Idle == [k |-> "idle"]

DashIdle == cb = Idle /\ chart = Idle /\ session = Idle /\ streak = Idle

\* the keyword arguments of the call: none, or the progress callback that
\* src/dashboard.py line 161 passes
NoKeywords == {}

ProgressCallback == "progress_callback"

\* the parameters of `def enrich_library(df)`
Parameters == {"df"}

Init ==
    /\ IsInput(input)
    /\ kw \in {NoKeywords, {ProgressCallback}}
    /\ host = HostOutcomes
    /\ run = 1
    /\ DashIdle
    /\ reported = 0
    /\ pc = "call"
    /\ df = NoTable
    /\ ids = <<>>
    /\ task = <<>>
    /\ results = <<>>
    /\ ret = NoTable
    /\ exc = "none"
    /\ gets = 0

\* line 43: a call with a keyword that is no parameter raises TypeError
\* before the body runs
RaiseUnexpectedKeyword ==
    /\ pc = "call"
    /\ ~(kw \subseteq Parameters)
    /\ pc' = "raised"
    /\ exc' = "TypeError"
    /\ UNCHANGED <<dashVars, input, kw, host, run, reported, df, ids, task, results, ret, gets>>

\* line 44-45
RaiseTypeError ==
    /\ pc = "call"
    /\ kw \subseteq Parameters
    /\ input.kind # "DataFrame"
    /\ pc' = "raised"
    /\ exc' = "TypeError"
    /\ UNCHANGED <<dashVars, input, kw, host, run, reported, df, ids, task, results, ret, gets>>

\* a guard that lets the call fall through to the conversion of the
\* identifier column, which creates that column
ReturnNoIdColumn_AddsColumn ==
    /\ pc = "call"
    /\ kw \subseteq Parameters
    /\ input.kind = "DataFrame"
    /\ BookId \notin input.cols
    /\ pc' = "returned"
    /\ ret' = Table(input.cols \cup {BookId}, input.rows)
    /\ UNCHANGED <<dashVars, input, kw, host, run, reported, df, ids, task, results, exc, gets>>

\* line 47-48
ReturnNoIdColumn ==
    /\ pc = "call"
    /\ kw \subseteq Parameters
    /\ input.kind = "DataFrame"
    /\ BookId \notin input.cols
    /\ pc' = "returned"
    /\ ret' = input
    /\ UNCHANGED <<dashVars, input, kw, host, run, reported, df, ids, task, results, exc, gets>>

\* line 50-68, when the classification raises
ResolveRaises ==
    /\ pc = "call"
    /\ kw \subseteq Parameters
    /\ input.kind = "DataFrame"
    /\ BookId \in input.cols
    /\ \E strict \in BOOLEAN :
          /\ MaskRaises(input, strict)
          /\ df' = CopyAsStr(input)
    /\ pc' = "raised"
    /\ exc' = "ValueError"
    /\ UNCHANGED <<dashVars, input, kw, host, run, reported, ids, task, results, ret, gets>>

\* line 50-74, when book_ids_list is empty
ShortCircuit ==
    /\ pc = "call"
    /\ kw \subseteq Parameters
    /\ input.kind = "DataFrame"
    /\ BookId \in input.cols
    /\ \E strict \in BOOLEAN :
          /\ ~MaskRaises(input, strict)
          /\ book_ids_list(input, strict) = <<>>
    /\ df' = WithGenres(CopyAsStr(input))
    /\ ret' = df'
    /\ pc' = "returned"
    /\ UNCHANGED <<dashVars, input, kw, host, run, reported, ids, task, results, exc, gets>>

\* a call without the copy of line 50: the conversion of the identifiers and
\* the new column are written to the table of the caller
Submit_InPlace ==
    /\ pc = "call"
    /\ kw \subseteq Parameters
    /\ input.kind = "DataFrame"
    /\ BookId \in input.cols
    /\ \E strict \in BOOLEAN :
          /\ ~MaskRaises(input, strict)
          /\ book_ids_list(input, strict) # <<>>
          /\ ids' = book_ids_list(input, strict)
    /\ df' = WithGenres(CopyAsStr(input))
    /\ input' = df'
    /\ task' = [i \in DOMAIN ids' |-> [st |-> "pending", out |-> NoOutcome]]
    /\ pc' = "pool"
    /\ UNCHANGED <<dashVars, kw, host, run, reported, results, ret, exc, gets>>

\* line 50-78: one task per identifier is handed to the executor
Submit ==
    /\ pc = "call"
    /\ kw \subseteq Parameters
    /\ input.kind = "DataFrame"
    /\ BookId \in input.cols
    /\ \E strict \in BOOLEAN :
          /\ ~MaskRaises(input, strict)
          /\ book_ids_list(input, strict) # <<>>
          /\ ids' = book_ids_list(input, strict)
    /\ df' = WithGenres(CopyAsStr(input))
    /\ task' = [i \in DOMAIN ids' |-> [st |-> "pending", out |-> NoOutcome]]
    /\ pc' = "pool"
    /\ UNCHANGED <<dashVars, input, kw, host, run, reported, results, ret, exc, gets>>

InFlight ==
    {i \in DOMAIN task : task[i].st \in {"sleeping", "requesting", "hung"}}

\* an executor that starts a worker for every queued task
CanStart_Unbounded(i) ==
    /\ task[i].st = "pending"
    /\ \A j \in 1..(i - 1) : task[j].st # "pending"

\* ThreadPoolExecutor(max_workers=MAX_WORKERS): a worker takes the oldest
\* queued task, and there are at most MAX_WORKERS workers
CanStart(i) ==
    /\ task[i].st = "pending"
    /\ \A j \in 1..(i - 1) : task[j].st # "pending"
    /\ Cardinality(InFlight) < MAX_WORKERS

\* a task that issues its request as soon as it starts
StartTask_NoDelay(i) ==
    /\ pc = "pool"
    /\ CanStart(i)
    /\ task' = [task EXCEPT ![i].st = "requesting"]
    /\ gets' = gets + 1
    /\ UNCHANGED <<dashVars, input, kw, host, run, reported, pc, df, ids, results, ret, exc>>

\* line 17-21: the task starts and sleeps
StartTask(i) ==
    /\ pc = "pool"
    /\ CanStart(i)
    /\ task' = [task EXCEPT ![i].st = "sleeping"]
    /\ UNCHANGED <<dashVars, input, kw, host, run, reported, pc, df, ids, results, ret, exc, gets>>

\* line 24: the GET is issued once the sleep is over
IssueRequest(i) ==
    /\ pc = "pool"
    /\ task[i].st = "sleeping"
    /\ task' = [task EXCEPT ![i].st = "requesting"]
    /\ gets' = gets + 1
    /\ UNCHANGED <<dashVars, input, kw, host, run, reported, pc, df, ids, results, ret, exc>>

\* a collection loop that records an empty result for a task that raised
Collected_FaultAsEmpty(res, book_id, o) ==
    IF o.k = "fault" THEN Append(res, <<book_id, ListV(<<>>)>>)
    ELSE Append(res, scrape_book_data(book_id, o))

\* line 79-84: what the collection loop does with a finished future
Collected(res, book_id, o) ==
    IF o.k = "fault" THEN res ELSE Append(res, scrape_book_data(book_id, o))

\* line 25-41 and 79-84: the task ends and the loop over as_completed, which
\* was waiting for it, takes its result
Complete(i) ==
    /\ pc = "pool"
    /\ task[i].st = "requesting"
    /\ \E o \in host \ {NoAnswer} :
          /\ task' = [task EXCEPT ![i] = [st |-> "done", out |-> o]]
          /\ results' = Collected(results, ids[i], o)
    /\ UNCHANGED <<dashVars, input, kw, host, run, reported, pc, df, ids, ret, exc, gets>>

\* line 24: s.get(url, headers=HEADERS) is given no timeout, so a request
\* the host never answers keeps its worker for ever
Hang(i) ==
    /\ pc = "pool"
    /\ task[i].st = "requesting"
    /\ NoAnswer \in host
    /\ task' = [task EXCEPT ![i] = [st |-> "hung", out |-> NoAnswer]]
    /\ UNCHANGED <<dashVars, input, kw, host, run, reported, pc, df, ids, results, ret, exc, gets>>

\* line 88-93
Normalise(genres) ==
    IF genres.t = "list" THEN genres
    ELSE IF genres.t = "na" THEN ListV(<<>>)
    ELSE ListV(<<genres.v>>)

\* a mapping that pairs the n-th collected result with the n-th submitted
\* identifier
results_map_ByPosition(res) ==
    [k \in {ids[n] : n \in DOMAIN res} |->
        Normalise(res[CHOOSE n \in DOMAIN res : ids[n] = k][2])]

\* line 86-93: later pairs overwrite earlier ones of the same key
RECURSIVE results_map(_)
results_map(res) ==
    IF res = <<>> THEN <<>>
    ELSE LET m == results_map(SubSeq(res, 1, Len(res) - 1))
             p == res[Len(res)]
         IN [k \in (DOMAIN m) \cup {p[1]} |->
                IF k = p[1] THEN Normalise(p[2]) ELSE m[k]]

\* a merge that keeps only the rows that received a result
Merge_DropsUnmatched(t, m) ==
    IF DOMAIN m = {} THEN t
    ELSE LET Hit(r) == r.id.v \in DOMAIN m
             kept == SelectSeq(t.rows, Hit)
         IN Table(t.cols,
                  [i \in DOMAIN kept |-> [kept[i] EXCEPT !.genres = m[kept[i].id.v]]])

\* a merge that does not write an empty sequence
Merge_SkipsEmpty(t, m) ==
    IF DOMAIN m = {} THEN t
    ELSE Table(t.cols,
               [i \in DOMAIN t.rows |->
                   IF t.rows[i].id.v \in DOMAIN m /\ m[t.rows[i].id.v].v # <<>>
                   THEN [t.rows[i] EXCEPT !.genres = m[t.rows[i].id.v]]
                   ELSE t.rows[i]])

\* a merge that assigns the whole column: df['Genres'] = df['Book Id'].map(m)
Merge_WholeColumn(t, m) ==
    IF DOMAIN m = {} THEN t
    ELSE Table(t.cols,
               [i \in DOMAIN t.rows |->
                   IF t.rows[i].id.v \in DOMAIN m
                   THEN [t.rows[i] EXCEPT !.genres = m[t.rows[i].id.v]]
                   ELSE [t.rows[i] EXCEPT !.genres = NA]])

\* line 95-97
Merge(t, m) ==
    IF DOMAIN m = {} THEN t
    ELSE Table(t.cols,
               [i \in DOMAIN t.rows |->
                   IF t.rows[i].id.v \in DOMAIN m
                   THEN [t.rows[i] EXCEPT !.genres = m[t.rows[i].id.v]]
                   ELSE t.rows[i]])

\* a merge that starts as soon as one task has finished
MergeReturn_Early ==
    /\ pc = "pool"
    /\ \E i \in DOMAIN task : task[i].st = "done"
    /\ df' = Merge(df, results_map(results))
    /\ ret' = df'
    /\ pc' = "returned"
    /\ UNCHANGED <<dashVars, input, kw, host, run, reported, ids, task, results, exc, gets>>

\* line 86-99, after the executor has been left with every task finished
MergeReturn ==
    /\ pc = "pool"
    /\ \A i \in DOMAIN task : task[i].st = "done"
    /\ df' = Merge(df, results_map(results))
    /\ ret' = df'
    /\ pc' = "returned"
    /\ UNCHANGED <<dashVars, input, kw, host, run, reported, ids, task, results, exc, gets>>

Next ==
    \/ RaiseUnexpectedKeyword
    \/ RaiseTypeError
    \/ ReturnNoIdColumn
    \/ ResolveRaises
    \/ ShortCircuit
    \/ Submit
    \/ \E i \in DOMAIN task : StartTask(i)
    \/ \E i \in DOMAIN task : IssueRequest(i)
    \/ \E i \in DOMAIN task : Complete(i)
    \/ \E i \in DOMAIN task : Hang(i)
    \/ MergeReturn

Spec == Init /\ [][Next]_vars

(***************************************************************************)
(* A call with more identifiers than workers: one row per identifier, no   *)
(* genre column, and a fetch function that raises for every identifier     *)
(***************************************************************************)
PoolTable ==
    Table({BookId, Title},
          [i \in 1..(MAX_WORKERS + 1) |->
              [id |-> IntV(i), genres |-> NA, title |-> i]])

InitPool ==
    /\ input = PoolTable
    /\ kw = NoKeywords
    /\ host \in {{Fault}}
    /\ run = 1
    /\ DashIdle
    /\ reported = 0
    /\ pc = "call"
    /\ df = NoTable
    /\ ids = <<>>
    /\ task = <<>>
    /\ results = <<>>
    /\ ret = NoTable
    /\ exc = "none"
    /\ gets = 0

NextPool ==
    \/ Submit
    \/ \E i \in DOMAIN task : StartTask(i)
    \/ \E i \in DOMAIN task : IssueRequest(i)
    \/ \E i \in DOMAIN task : Complete(i)
    \/ MergeReturn

SpecPool == InitPool /\ [][NextPool]_vars

(***************************************************************************)
(* A call on a table without genre column, followed by a second call on    *)
(* the table the first call returned                                       *)
(***************************************************************************)
InitRerun ==
    /\ \E n \in 0..MaxRows : \E f \in [1..n -> IdValues \X {NA}] :
          input = Table({BookId, Title}, Rows(n, f))
    /\ kw = NoKeywords
    /\ host = HostOutcomes \ {NoAnswer}
    /\ run = 1
    /\ DashIdle
    /\ pc = "call"
    /\ df = NoTable
    /\ ids = <<>>
    /\ task = <<>>
    /\ results = <<>>
    /\ ret = NoTable
    /\ exc = "none"
    /\ gets = 0
    /\ reported = 0

\* the caller passes the returned table to enrich_library again
Rerun ==
    /\ pc = "returned"
    /\ run = 1
    /\ run' = 2
    /\ input' = ret
    /\ pc' = "call"
    /\ df' = NoTable
    /\ ids' = <<>>
    /\ task' = <<>>
    /\ results' = <<>>
    /\ ret' = NoTable
    /\ gets' = 0
    /\ UNCHANGED <<dashVars, kw, host, exc, reported>>

NextRerun ==
    \/ ResolveRaises
    \/ ShortCircuit
    \/ Submit
    \/ \E i \in DOMAIN task : StartTask(i)
    \/ \E i \in DOMAIN task : IssueRequest(i)
    \/ \E i \in DOMAIN task : Complete(i)
    \/ MergeReturn
    \/ Rerun

SpecRerun == InitRerun /\ [][NextRerun]_vars

(***************************************************************************)
(* A call on a table without genre column whose identifiers include empty  *)
(* and malformed ones                                                      *)
(***************************************************************************)
InitIds ==
    /\ \E n \in 0..MaxRows : \E f \in [1..n -> (IdValues \cup OddIdValues) \X {NA}] :
          input = Table({BookId, Title}, Rows(n, f))
    /\ kw = NoKeywords
    /\ host = HostOutcomes \ {NoAnswer}
    /\ run = 1
    /\ DashIdle
    /\ pc = "call"
    /\ df = NoTable
    /\ ids = <<>>
    /\ task = <<>>
    /\ results = <<>>
    /\ ret = NoTable
    /\ exc = "none"
    /\ gets = 0
    /\ reported = 0

NextIds ==
    \/ ShortCircuit
    \/ Submit
    \/ \E i \in DOMAIN task : StartTask(i)
    \/ \E i \in DOMAIN task : IssueRequest(i)
    \/ \E i \in DOMAIN task : Complete(i)
    \/ MergeReturn

SpecIds == InitIds /\ [][NextIds]_vars

(***************************************************************************)
(* The progress callback of the dashboard (src/dashboard.py, 144-159)      *)
(***************************************************************************)
\* no call of enrich_library is under way
EnrichIdle ==
    /\ input = NotATable
    /\ kw = NoKeywords
    /\ host = {}
    /\ run = 1
    /\ pc = "idle"
    /\ df = NoTable
    /\ ids = <<>>
    /\ task = <<>>
    /\ results = <<>>
    /\ ret = NoTable
    /\ exc = "none"
    /\ gets = 0
    /\ reported = 0

enrichVars ==
    <<input, kw, host, run, pc, df, ids, task, results, ret, exc, gets, reported>>

\* int((done / total) * 100); a division by zero raises.  For a total below
\* 20 the float product truncates to the integer quotient (it does not for
\* 23/20 or 29/100).
Percent(done, total) ==
    IF total = 0 THEN [raised |-> TRUE, v |-> 0]
    ELSE [raised |-> FALSE, v |-> (done * 100) \div total]

\* line 145-151: the first try block and its except branch
Pct(done, total) ==
    LET r == IF total # 0 /\ total > 0
             THEN Percent(done, total)
             ELSE [raised |-> FALSE, v |-> IF done >= total THEN 100 ELSE 0]
    IN [zerodiv |-> r.raised, v |-> IF r.raised THEN 0 ELSE r.v]

Max(a, b) == IF a >= b THEN a ELSE b

Min(a, b) == IF a <= b THEN a ELSE b

\* no clamp
Clamp_None(p) == p

\* min(max(pct, 0), 100)
Clamp(p) == Min(Max(p, 0), 100)

\* st.progress accepts an int in 0..100 and raises for any other
ProgressAccepts(v) == v \in 0..100

InitCallback ==
    /\ EnrichIdle
    /\ \E d \in 0..MaxCount : \E t \in 0..MaxCount :
          cb = [k |-> "args", done |-> d, total |-> t]
    /\ chart = Idle /\ session = Idle /\ streak = Idle

\* line 144-159
_progress_callback ==
    /\ cb.k = "args"
    /\ LET p == Pct(cb.done, cb.total)
           v == Clamp(p.v)
       IN cb' = [k |-> "called", done |-> cb.done, total |-> cb.total,
                 zerodiv |-> p.zerodiv,
                 bar |-> IF ProgressAccepts(v) THEN v ELSE -1,
                 text |-> IF ~ProgressAccepts(v) THEN "unset"
                          ELSE IF cb.total # 0 /\ cb.total > 0 THEN "Fetching genre data"
                          ELSE "No books to enrich",
                 raised |-> FALSE]
    /\ UNCHANGED <<enrichVars, chart, session, streak>>

NextCallback == _progress_callback

SpecCallback == InitCallback /\ [][NextCallback]_vars

(***************************************************************************)
(* calculate_reading_streak (src/insights_functions.py, 251-281)           *)
(***************************************************************************)
\* a missing date, and Python's None; calendar days are the integers from 1
NaT == 0

None == -1

\* the 'Date Read' column of the argument, or no such column
NoColumn == [k |-> "nocolumn", col |-> <<>>]

DateColumn(c) == [k |-> "column", col |-> c]

\* df['Date Read'].dropna()
DropNa(col) == SelectSeq(col, LAMBDA d : d # NaT)

\* .sort_values().unique(): the distinct dates in ascending order
RECURSIVE SortedUnique(_)
SortedUnique(S) ==
    IF S = {} THEN <<>>
    ELSE LET first == CHOOSE x \in S : \A y \in S : x <= y
         IN <<first>> \o SortedUnique(S \ {first})

\* a loop body that does not move streak_start when a run is broken
StreakStep_KeepsStart(st, prev, cur) ==
    IF cur - prev = 1
    THEN LET n == st.streak + 1 IN
         IF n > st.max_streak
         THEN [streak |-> n, streak_start |-> st.streak_start, streak_end |-> cur,
               max_streak |-> n, max_streak_start |-> st.streak_start,
               max_streak_end |-> cur]
         ELSE [st EXCEPT !.streak = n, !.streak_end = cur]
    ELSE [st EXCEPT !.streak = 1, !.streak_end = cur]

\* line 266-279: the body of the loop, for dates[i - 1] and dates[i]
StreakStep(st, prev, cur) ==
    IF cur - prev = 1
    THEN LET n == st.streak + 1 IN
         IF n > st.max_streak
         THEN [streak |-> n, streak_start |-> st.streak_start, streak_end |-> cur,
               max_streak |-> n, max_streak_start |-> st.streak_start,
               max_streak_end |-> cur]
         ELSE [st EXCEPT !.streak = n, !.streak_end = cur]
    ELSE [st EXCEPT !.streak = 1, !.streak_start = cur, !.streak_end = cur]

\* line 262-279: the loop, from index i on
RECURSIVE StreakLoop(_, _, _)
StreakLoop(dates, i, st) ==
    IF i > Len(dates) THEN st
    ELSE StreakLoop(dates, i + 1, StreakStep(st, dates[i - 1], dates[i]))

\* line 251-281
calculate_reading_streak(arg) ==
    IF arg.k = "nocolumn" \/ \A i \in DOMAIN arg.col : arg.col[i] = NaT
    THEN <<0, None, None>>
    ELSE LET dates == SortedUnique(Range(DropNa(arg.col))) IN
         IF Len(dates) = 0 THEN <<0, None, None>>
         ELSE IF Len(dates) = 1 THEN <<1, dates[1], dates[1]>>
         ELSE LET st == StreakLoop(dates, 2,
                            [streak |-> 1, streak_start |-> dates[1],
                             streak_end |-> dates[1], max_streak |-> 1,
                             max_streak_start |-> dates[1],
                             max_streak_end |-> dates[1]])
              IN <<st.max_streak, st.max_streak_start, st.max_streak_end>>

InitStreak ==
    /\ EnrichIdle
    /\ \/ streak = [k |-> "args", arg |-> NoColumn]
       \/ \E n \in 0..MaxDates : \E c \in [1..n -> {NaT} \cup (1..MaxDay)] :
             streak = [k |-> "args", arg |-> DateColumn(c)]
    /\ cb = Idle /\ chart = Idle /\ session = Idle

CallStreak ==
    /\ streak.k = "args"
    /\ streak' = [k |-> "called", arg |-> streak.arg,
                  out |-> calculate_reading_streak(streak.arg)]
    /\ UNCHANGED <<enrichVars, cb, chart, session>>

NextStreak == CallStreak

SpecStreak == InitStreak /\ [][NextStreak]_vars

(***************************************************************************)
(* The genre column after enrichment: the dashboard joins each list        *)
(* (src/dashboard.py, 166-173) and generate_top_genres_chart counts the    *)
(* genres (src/insights_functions.py, 355-389)                             *)
(***************************************************************************)
\* genre lists as scrape_book_data returns them: tags of one and two words
FetchedLists ==
    {<<>>, << <<"F">> >>, << <<"D">> >>, << <<"F">>, <<"D">> >>,
     << <<"S", " ", "F">> >>}

\* sep.join(parts)
RECURSIVE Join(_, _)
Join(parts, sep) ==
    IF parts = <<>> THEN <<>>
    ELSE IF Len(parts) = 1 THEN parts[1]
    ELSE parts[1] \o sep \o Join(Tail(parts), sep)

\* lambda x: ' | '.join(x) if isinstance(x, list) else x
JoinGenres(cell) ==
    IF cell.t = "list" THEN StrV(Join(cell.v, <<" ", "|", " ">>)) ELSE cell

\* the pieces of s between the characters of the set C
RECURSIVE SplitOn(_, _)
SplitOn(s, C) ==
    IF \A i \in DOMAIN s : s[i] \notin C THEN <<s>>
    ELSE LET i == CHOOSE j \in DOMAIN s :
                      s[j] \in C /\ \A h \in 1..(j - 1) : s[h] \notin C
         IN <<SubSeq(s, 1, i - 1)>> \o SplitOn(SubSeq(s, i + 1, Len(s)), C)

NonEmpty(parts) == SelectSeq(parts, LAMBDA p : p # <<>>)

\* s.strip(chars)
RECURSIVE StripChars(_, _)
StripChars(s, C) ==
    IF s # <<>> /\ Head(s) \in C THEN StripChars(Tail(s), C)
    ELSE IF s # <<>> /\ s[Len(s)] \in C
         THEN StripChars(SubSeq(s, 1, Len(s) - 1), C)
         ELSE s

\* ast.literal_eval(s) gives a list only for a text in square brackets; of
\* the texts of this model only "[]" is one
ParsedAsList(s) ==
    IF s = <<"[", "]">> THEN [list |-> TRUE, v |-> <<>>]
    ELSE [list |-> FALSE, v |-> <<>>]

\* [str(g).strip() for g in genres_list if str(g).strip()]
Cleaned(l) == NonEmpty([i \in DOMAIN l |-> strip(l[i])])

\* line 361-379: the genres one cell adds to all_genres
GenresOfCell(cell) ==
    IF cell.t = "list" THEN Cleaned(cell.v)
    ELSE IF cell.t = "str"
    THEN LET s == strip(cell.v)
             parsed == ParsedAsList(s)
         IN IF parsed.list THEN Cleaned(parsed.v)
            ELSE LET t == StripChars(s, {"[", "]"})
                     pieces == SelectSeq(SplitOn(t, {","}), LAMBDA p : strip(p) # <<>>)
                 IN NonEmpty([i \in DOMAIN pieces |->
                                 StripChars(strip(pieces[i]), {"'", "\""})])
    ELSE <<>>

RECURSIVE Concat(_)
Concat(ss) == IF ss = <<>> THEN <<>> ELSE Head(ss) \o Concat(Tail(ss))

\* ' '.join(g.split())
NormaliseSpaces(g) == Join(NonEmpty(SplitOn(g, Whitespace)), <<" ">>)

\* line 355-384: all_genres, from which value_counts() makes the counts of
\* the chart; no chart without a genre
all_genres(col) ==
    LET dropped == SelectSeq(col, LAMBDA c : c.t # "na")
        found == Concat([i \in DOMAIN dropped |-> GenresOfCell(dropped[i])])
    IN [i \in DOMAIN found |-> NormaliseSpaces(found[i])]

InitChart ==
    /\ EnrichIdle
    /\ \E n \in 0..MaxRows :
          \E f \in [1..n -> {NA} \cup {ListV(l) : l \in FetchedLists}] :
             chart = [k |-> "enriched", fetched |-> f, col |-> f, counted |-> <<>>]
    /\ cb = Idle /\ session = Idle /\ streak = Idle

\* src/dashboard.py line 166-173
StoreEnriched ==
    /\ chart.k = "enriched"
    /\ chart' = [chart EXCEPT !.k = "stored",
                              !.col = [i \in DOMAIN chart.col |-> JoinGenres(chart.col[i])]]
    /\ UNCHANGED <<enrichVars, cb, session, streak>>

\* src/dashboard.py line 210-212
DrawChart ==
    /\ chart.k = "stored"
    /\ chart' = [chart EXCEPT !.k = "drawn", !.counted = all_genres(chart.col)]
    /\ UNCHANGED <<enrichVars, cb, session, streak>>

NextChart == StoreEnriched \/ DrawChart

SpecChart == InitChart /\ [][NextChart]_vars

(***************************************************************************)
(* The dashboard session (src/dashboard.py): every interaction runs main() *)
(* again, with st.session_state kept from run to run                       *)
(***************************************************************************)
\* the uploads: a name and whether the file has a genre column with data
Files == [name : {"a.csv", "b.csv", "c.csv"}, genres : BOOLEAN]

NoFile == [name |-> "none", genres |-> FALSE]

\* a key that is not in st.session_state: the stored name, the stored table
Unset == "unset"

Absent == [name |-> "absent", genres |-> FALSE]

\* line 33
tab_titles ==
    <<"Reading Pace", "Trends & Authors", "Publishers & Binding", "Top Books",
      "Longest & Shortest Books", "Enrich Data with Genres", "Raw Data">>

\* line 22-24: the name is stored when the session has none yet
StoredName(name, f) == IF name = Unset THEN f.name ELSE name

\* a new browser session: nothing uploaded, nothing in st.session_state
InitSession ==
    /\ EnrichIdle
    /\ session = [k |-> "session", uploaded |-> NoFile,
                  uploaded_file_name |-> Unset, enriched_df |-> Absent,
                  active_tab |-> tab_titles[1], error |-> "none"]
    /\ cb = Idle /\ chart = Idle /\ streak = Idle

\* the user puts a file into the uploader; line 20-40
Upload(f) ==
    /\ session.k = "session"
    /\ f # session.uploaded
    /\ session' = [session EXCEPT !.uploaded = f,
                                  !.uploaded_file_name = StoredName(@, f),
                                  !.error = "none"]
    /\ UNCHANGED <<enrichVars, cb, chart, streak>>

\* the user removes the file; line 231-232: the radio is not drawn, and its
\* value is dropped with it
RemoveUpload ==
    /\ session.k = "session"
    /\ session.uploaded # NoFile
    /\ session' = [session EXCEPT !.uploaded = NoFile,
                                  !.active_tab = tab_titles[1],
                                  !.error = "none"]
    /\ UNCHANGED <<enrichVars, cb, chart, streak>>

\* line 35-40
SelectTab(t) ==
    /\ session.k = "session"
    /\ session.uploaded # NoFile
    /\ t # session.active_tab
    /\ session' = [session EXCEPT !.active_tab = t, !.error = "none"]
    /\ UNCHANGED <<enrichVars, cb, chart, streak>>

\* line 139-175: the button of the enrichment tab; the call of line 161
\* passes progress_callback, and what it returns is stored at line 172
ClickEnrich ==
    /\ session.k = "session"
    /\ session.uploaded # NoFile
    /\ session.active_tab = "Enrich Data with Genres"
    /\ session' = IF {ProgressCallback} \subseteq Parameters
                  THEN [session EXCEPT !.enriched_df = session.uploaded,
                                       !.error = "none"]
                  ELSE [session EXCEPT !.error = "TypeError"]
    /\ UNCHANGED <<enrichVars, cb, chart, streak>>

NextSession ==
    \/ \E f \in Files : Upload(f)
    \/ RemoveUpload
    \/ \E i \in DOMAIN tab_titles : SelectTab(tab_titles[i])
    \/ ClickEnrich

SpecSession == InitSession /\ [][NextSession]_vars

\* line 179-182 and 222-226: the upload the displayed table comes from
enriched_present == session.enriched_df # Absent

display_df == IF enriched_present THEN session.enriched_df ELSE session.uploaded

\* line 178-193: the download is offered in the enrichment tab when there
\* are genres; its name ends with the stored name
DownloadOffered ==
    /\ session.uploaded # NoFile
    /\ session.active_tab = "Enrich Data with Genres"
    /\ session.error = "none"
    /\ session.uploaded.genres \/ enriched_present

download_name == session.uploaded_file_name

(***************************************************************************)
(* Vocabulary of the properties                                            *)
(***************************************************************************)
Returned == pc = "returned"

Pooled == ids # <<>>

FetchSet == Range(ids)

\* the identifier of input row i in the string form the resolver works on
IdStr(i) == PyStr(input.rows[i].id)

\* a non-empty sequence of non-blank strings
HoldsGenres(g) ==
    /\ g.t = "list"
    /\ Len(g.v) > 0
    /\ \A k \in DOMAIN g.v : strip(g.v[k]) # <<>>

Success2xx(o) == o.k = "resp" /\ o.status \in 200..299

\* a request that did not succeed: an exception or a status outside 2xx
FailedRequest(o) == o.k = "error" \/ (o.k = "resp" /\ o.status \notin 200..299)

\* the texts of the genre elements of the document, trimmed, in order
Extracted(o) == ListV([i \in DOMAIN o.body |-> strip(o.body[i])])

Done(k) == task[k].st = "done"

\* the tasks whose result reached the collection loop
Delivered == {k \in DOMAIN task : Done(k) /\ task[k].out.k # "fault"}

RowIdx == DOMAIN input.rows

(***************************************************************************)
(* C1  Failure absorption: when every fetch raises or gets a status        *)
(* outside 2xx, the call returns a table and every submitted identifier's  *)
(* genre value in it is the empty sequence.                                *)
(***************************************************************************)
C1_FailureAbsorption ==
    (/\ pc \in {"returned", "raised"}
     /\ Pooled
     /\ \A k \in DOMAIN task : task[k].out.k = "fault" \/ FailedRequest(task[k].out))
    => /\ Returned
       /\ Len(ret.rows) = Len(input.rows)
       /\ \A i \in DOMAIN ret.rows :
             ret.rows[i].id.v \in FetchSet => ret.rows[i].genres = ListV(<<>>)

(***************************************************************************)
(* C2  Idempotent re-classification, as claimed: the identifier of a       *)
(* record that holds a non-empty sequence of non-blank strings is never in *)
(* the set of identifiers to fetch.                                        *)
(***************************************************************************)
C2_NeverSelected ==
    \A i \in RowIdx :
        (Genres \in input.cols /\ HoldsGenres(input.rows[i].genres))
        => IdStr(i) \notin FetchSet

(***************************************************************************)
(* C2  as amended: the identifier of a record that holds a non-empty       *)
(* sequence of non-blank strings is in the set of identifiers to fetch     *)
(* only when another record with the same identifier does not hold one.    *)
(***************************************************************************)
C2_SelectedOnlyForAnotherRecord ==
    \A i \in RowIdx :
        (/\ Genres \in input.cols
         /\ HoldsGenres(input.rows[i].genres)
         /\ IdStr(i) \in FetchSet)
        => \E j \in RowIdx \ {i} :
              IdStr(j) = IdStr(i) /\ ~HoldsGenres(input.rows[j].genres)

C2_Witness ==
    /\ pc = "pool"
    /\ \E i \in RowIdx :
          /\ HoldsGenres(input.rows[i].genres)
          /\ isdigit(IdStr(i))
          /\ IdStr(i) \notin FetchSet

(***************************************************************************)
(* C3  Empty-set short circuit: when no identifier is selected, no task is *)
(* submitted, no request is made and the returned table equals the input.  *)
(***************************************************************************)
C3_ShortCircuit ==
    (Returned /\ ~Pooled) => (task = <<>> /\ gets = 0 /\ ret = input)

(***************************************************************************)
(* C4  Row-order invariance: the values of every column other than the     *)
(* genre column, the identifier column included, are the same, row by row, *)
(* in the input and in the returned table.                                 *)
(***************************************************************************)
C4_RowOrder ==
    Returned =>
        /\ DOMAIN ret.rows = RowIdx
        /\ \A i \in RowIdx :
              /\ ret.rows[i].title = input.rows[i].title
              /\ ret.rows[i].id = input.rows[i].id

(***************************************************************************)
(* C5  Row-count invariance: the returned table has as many rows as the    *)
(* input, whatever the fetches did.                                        *)
(***************************************************************************)
C5_RowCount == Returned => Len(ret.rows) = Len(input.rows)

C5_Witness ==
    /\ Returned
    /\ Len(input.rows) = 2
    /\ \E k \in DOMAIN task : task[k].out.k = "fault"
    /\ \E k \in DOMAIN task : Success2xx(task[k].out)

(***************************************************************************)
(* C6  Merge overwrite: in the returned table every record whose           *)
(* identifier has a collected result holds exactly the collected sequence, *)
(* the empty sequence included.                                            *)
(***************************************************************************)
C6_MergeOverwrite ==
    Returned =>
        \A k \in Delivered : \A i \in DOMAIN ret.rows :
            ret.rows[i].id.v = ids[k]
            => ret.rows[i].genres = scrape_book_data(ids[k], task[k].out)[2]

C6_Witness ==
    /\ Returned
    /\ \E k \in Delivered : \E i \in RowIdx :
          /\ IdStr(i) = ids[k]
          /\ task[k].out = Resp(200, <<>>)
          /\ input.rows[i].genres = NA
          /\ ret.rows[i].genres = ListV(<<>>)

(***************************************************************************)
(* C7  Merge frame: a record whose identifier was not submitted has in the *)
(* returned table the genre value it had in the input.                     *)
(***************************************************************************)
C7_MergeFrame ==
    (Returned /\ BookId \in input.cols) =>
        \A i \in RowIdx :
            IdStr(i) \notin FetchSet
            => ret.rows[i].genres = input.rows[i].genres

C7_Witness ==
    /\ Returned
    /\ Delivered # {}
    /\ \E i \in RowIdx :
          /\ IdStr(i) \notin FetchSet
          /\ isdigit(IdStr(i))
          /\ ret.rows[i].genres = ListV(<< <<"F">> >>)

(***************************************************************************)
(* C8  Concurrency bound: at most MAX_WORKERS fetches are in flight.       *)
(***************************************************************************)
C8_ConcurrencyBound == Cardinality(InFlight) <= MAX_WORKERS

C8_Witness ==
    /\ Cardinality(InFlight) = MAX_WORKERS
    /\ \E i \in DOMAIN task : task[i].st = "pending"

(***************************************************************************)
(* C9  Completion-order independence: the returned table is determined by  *)
(* the input and the outcome of each identifier, and its rows are in the   *)
(* order of the input.                                                     *)
(***************************************************************************)
OutcomeOf(s) == task[CHOOSE k \in DOMAIN task : ids[k] = s].out

ExpectedRow(i) ==
    LET r == [input.rows[i] EXCEPT !.id = StrV(IdStr(i))] IN
    IF IdStr(i) \in FetchSet /\ OutcomeOf(IdStr(i)).k # "fault"
    THEN [r EXCEPT !.genres = scrape_book_data(IdStr(i), OutcomeOf(IdStr(i)))[2]]
    ELSE r

C9_OrderIndependence ==
    (Returned /\ Pooled) =>
        ret = Table(input.cols \cup {Genres}, [i \in RowIdx |-> ExpectedRow(i)])

C9_Witness ==
    /\ Returned
    /\ Len(results) = 2
    /\ results[1][1] = ids[2]
    /\ results[1][2] # results[2][2]

(***************************************************************************)
(* C10  The per-item fetch returns its own identifier with the empty       *)
(* sequence for every request that did not succeed, and with the extracted *)
(* genres for a request that succeeded.                                    *)
(***************************************************************************)
C10_FetchContract ==
    \A k \in Delivered :
        LET o == task[k].out IN
        /\ FailedRequest(o) => <<ids[k], ListV(<<>>)>> \in Range(results)
        /\ Success2xx(o) => <<ids[k], Extracted(o)>> \in Range(results)

(***************************************************************************)
(* C11  Worker-fault isolation: an exception raised by a fetch task is     *)
(* caught by the collection loop and does not make the call raise; its     *)
(* identifier is left out of the result mapping, so its rows keep the      *)
(* value they had before the merge; the other tasks can still finish, and  *)
(* their results are in the returned table.                                *)
(***************************************************************************)
Faulted == {k \in DOMAIN task : Done(k) /\ task[k].out.k = "fault"}

C11_FaultIsolation ==
    Faulted # {} =>
        /\ pc # "raised"
        /\ \A k \in Faulted : ids[k] \notin {results[n][1] : n \in DOMAIN results}
        /\ \A j \in DOMAIN task : task[j].st = "requesting" => ENABLED Complete(j)
        /\ (pc = "pool" /\ \A j \in DOMAIN task : Done(j)) => ENABLED MergeReturn
        /\ Returned =>
              /\ \A k \in Faulted : \A i \in RowIdx :
                    IdStr(i) = ids[k] => ret.rows[i].genres = input.rows[i].genres
              /\ \A j \in Delivered : \A i \in RowIdx :
                    IdStr(i) = ids[j]
                    => ret.rows[i].genres = scrape_book_data(ids[j], task[j].out)[2]

C11_Witness ==
    /\ Returned
    /\ Faulted # {}
    /\ \E j \in Delivered : \E i \in RowIdx :
          /\ IdStr(i) = ids[j]
          /\ ret.rows[i].genres = ListV(<< <<"S">>, <<"T">> >>)

(***************************************************************************)
(* C12  Progress reporting: a call that passes a progress callback does    *)
(* not raise, the callback has been invoked at least once for every fetch  *)
(* that is complete, and the call returns the table.                       *)
(***************************************************************************)
C12_ProgressReported ==
    (ProgressCallback \in kw /\ pc # "call") =>
        /\ pc # "raised"
        /\ reported >= Cardinality({k \in DOMAIN task : Done(k)})
        /\ (Returned => ret.kind = "DataFrame")

(***************************************************************************)
(* C13  Termination under an unresponsive host: a request the host never   *)
(* answers still ends, so a call that has submitted its tasks can always   *)
(* take a further step until it returns.                                   *)
(***************************************************************************)
C13_NeverStalls ==
    /\ \A i \in DOMAIN task : task[i].st # "hung"
    /\ pc = "pool" => ENABLED Next

(***************************************************************************)
(* C14  Re-run idempotence: the second call, on the table the first call   *)
(* returned, does not raise and fetches exactly the valid identifiers      *)
(* whose genre value is still empty or absent; when there is none it makes *)
(* no request.                                                             *)
(***************************************************************************)
StillMissing(g) ==
    \/ g.t = "na"
    \/ g.t = "list" /\ g.v = <<>>
    \/ g.t = "str" /\ strip(g.v) \in {<<>>, <<"[", "]">>}

C14_RerunFetchesMissing ==
    (run = 2 /\ pc # "call") =>
        /\ pc # "raised"
        /\ FetchSet = {IdStr(i) : i \in {j \in RowIdx :
                          isdigit(IdStr(j)) /\ StillMissing(input.rows[j].genres)}}
        /\ (FetchSet = {} => gets = 0)

(***************************************************************************)
(* C15  Malformed-identifier exclusion: an identifier that is missing,     *)
(* empty, or has a character that is not a decimal digit is never in the   *)
(* set of identifiers to fetch and never makes the call raise.             *)
(***************************************************************************)
Malformed(cell) ==
    \/ cell.t = "na"
    \/ cell.t = "str" /\ cell.v = <<>>
    \/ cell.t = "str" /\ \E i \in DOMAIN cell.v : cell.v[i] \notin Range(DigitChars)

C15_MalformedExcluded ==
    \A i \in RowIdx :
        Malformed(input.rows[i].id) => (IdStr(i) \notin FetchSet /\ pc # "raised")

(***************************************************************************)
(* C16  Missing-column no-op: a call enrich_library(df) on a table without *)
(* identifier column returns that table with no column added and no value  *)
(* changed, issues no fetch and raises nothing.                            *)
(***************************************************************************)
NoIdColumn == input.kind = "DataFrame" /\ BookId \notin input.cols

C16_MissingColumnNoOp ==
    (NoIdColumn /\ kw \subseteq Parameters /\ pc # "call") =>
        /\ pc = "returned"
        /\ ret = input
        /\ exc = "none"
        /\ df = NoTable
        /\ ids = <<>> /\ task = <<>> /\ results = <<>>
        /\ gets = 0

C16_Witness ==
    /\ Returned
    /\ NoIdColumn
    /\ Len(input.rows) = 2
    /\ \E i \in RowIdx : input.rows[i].genres = ListV(<<>>)

(***************************************************************************)
(* C17  Input contract violation: an argument that is no table makes the   *)
(* call raise TypeError before any identifier is resolved or any fetch is  *)
(* issued, and in no other case does the call raise.                       *)
(***************************************************************************)
C17_OnlyInputTypeRaises ==
    /\ (input.kind # "DataFrame" /\ pc # "call") =>
          /\ pc = "raised" /\ exc = "TypeError"
          /\ ids = <<>> /\ task = <<>> /\ gets = 0
    /\ pc = "raised" => input.kind # "DataFrame"

(***************************************************************************)
(* C18  Single-threaded merge: while a submitted task is unfinished no     *)
(* step writes the table; the steps of the workers only add (identifier,   *)
(* genres) results; the one step that writes the table after submission is *)
(* the merge, taken when every task is done, and the call returns with it. *)
(***************************************************************************)
Unfinished == {i \in DOMAIN task : task[i].st # "done"}

C18_SingleThreadedMerge ==
    [][/\ Unfinished # {} => df' = df
       /\ (pc = "pool" /\ df' # df) =>
             /\ Unfinished = {}
             /\ results' = results /\ task' = task
             /\ pc' = "returned"]_vars

C18_Witness ==
    /\ Returned
    /\ Len(ids) = 2
    /\ Len(results) = 2
    /\ df # WithGenres(CopyAsStr(input))

(***************************************************************************)
(* C19  Needs-enrichment classification: with a genre column, a record     *)
(* needs enrichment exactly when its genre value is missing, an empty      *)
(* list, a blank string or the text of an empty list, and the              *)
(* classification raises for no value, lists of tags included.             *)
(***************************************************************************)
HasBothColumns ==
    input.kind = "DataFrame" /\ BookId \in input.cols /\ Genres \in input.cols

C19_Classification ==
    (HasBothColumns /\ kw \subseteq Parameters /\ pc # "call") =>
        /\ pc # "raised"
        /\ \A i \in RowIdx :
              isdigit(IdStr(i)) =>
                  (IdStr(i) \in FetchSet
                   <=> \E j \in RowIdx : /\ IdStr(j) = IdStr(i)
                                         /\ StillMissing(input.rows[j].genres))

(***************************************************************************)
(* C20  Exactly one request per distinct identifier: within one call every *)
(* identifier of the fetch set has one task, however many rows share it;   *)
(* a task issues one GET, whether it fails or not, so that a call that     *)
(* returns after fetching has issued as many GETs as there are distinct    *)
(* identifiers.                                                            *)
(***************************************************************************)
Requested == {i \in DOMAIN task : task[i].st \in {"requesting", "hung", "done"}}

C20_OneRequestPerIdentifier ==
    /\ \A i, j \in DOMAIN ids : ids[i] = ids[j] => i = j
    /\ pc \in {"pool", "returned"} => DOMAIN task = DOMAIN ids
    /\ gets = Cardinality(Requested)
    /\ Returned => gets = Cardinality(FetchSet)

C20_Witness ==
    /\ Returned
    /\ Len(input.rows) = 2
    /\ input.rows[1].id # input.rows[2].id
    /\ IdStr(1) = IdStr(2)
    /\ FetchSet = {IdStr(1)}
    /\ gets = 1
    /\ \E i \in DOMAIN task : FailedRequest(task[i].out)

(***************************************************************************)
(* C21  HTTP status handling: a response whose status is outside 200..299  *)
(* gives the empty genre sequence for its identifier, its document is not  *)
(* read for genres; only a response with a status in 200..299 is parsed.   *)
(***************************************************************************)
Answered == {k \in Delivered : task[k].out.k = "resp"}

C21_StatusHandling ==
    \A k \in Answered :
        task[k].out.status \notin 200..299 =>
            /\ scrape_book_data(ids[k], task[k].out) = <<ids[k], ListV(<<>>)>>
            /\ \A n \in DOMAIN results :
                  results[n][1] = ids[k] => results[n][2] = ListV(<<>>)

(***************************************************************************)
(* C22  Polite delay ordering: a task issues its GET only from its delay,  *)
(* one GET per step out of a delay; a started task is in its delay and has *)
(* issued nothing; and the delay of one task keeps no other task from      *)
(* starting its own: the oldest queued task can start whenever fewer than  *)
(* MAX_WORKERS tasks are in flight, so that MAX_WORKERS tasks can be in    *)
(* their delay at the same time.                                           *)
(***************************************************************************)
Sleeping == {i \in DOMAIN task : task[i].st = "sleeping"}

C22_DelayBeforeRequest ==
    /\ [](\A i \in DOMAIN task :
            (/\ pc = "pool"
             /\ task[i].st = "pending"
             /\ \A j \in 1..(i - 1) : task[j].st # "pending"
             /\ Cardinality(InFlight) < MAX_WORKERS) => ENABLED StartTask(i))
    /\ [][/\ \A i \in DOMAIN task :
              /\ (task[i].st = "pending" /\ task'[i].st # "pending") =>
                    (task'[i].st = "sleeping" /\ gets' = gets)
              /\ (task[i].st # "requesting" /\ task'[i].st = "requesting") =>
                    (task[i].st = "sleeping" /\ gets' = gets + 1)
          /\ gets' # gets =>
                \E i \in DOMAIN task :
                    task[i].st = "sleeping" /\ task'[i].st = "requesting"]_vars

C22_Witness ==
    /\ Cardinality(Sleeping) = MAX_WORKERS
    /\ gets = 1

(***************************************************************************)
(* C24  Caller's table is never mutated: no step of a call on a table with *)
(* an identifier column changes the table the caller passed; conversion,   *)
(* column addition and merge are done on the copy.                         *)
(***************************************************************************)
C24_CallerTableUntouched ==
    [][(input.kind = "DataFrame" /\ BookId \in input.cols) => input' = input]_vars

C24_Witness ==
    /\ Returned
    /\ Genres \notin input.cols
    /\ Genres \in ret.cols
    /\ \E i \in RowIdx :
          /\ input.rows[i].id = IntV(7)
          /\ ret.rows[i].id = StrV(<<"7">>)
          /\ ret.rows[i].genres = ListV(<< <<"S">>, <<"T">> >>)

(***************************************************************************)
(* C23  The progress callback tolerates every pair of counts, a total of 0 *)
(* included: it divides by zero for none, raises for none, and sets the    *)
(* progress bar to a percentage in 0..100.                                 *)
(***************************************************************************)
C23_CallbackTolerant ==
    cb.k = "called" =>
        /\ ~cb.zerodiv
        /\ ~cb.raised
        /\ cb.bar \in 0..100
        /\ cb.total = 0 => (cb.bar = 100 /\ cb.text = "No books to enrich")
        /\ (cb.total > 0 /\ cb.done <= cb.total) =>
              /\ cb.bar * cb.total <= 100 * cb.done
              /\ 100 * cb.done < (cb.bar + 1) * cb.total

C23_Witness ==
    /\ cb.k = "called"
    /\ cb.total = 0
    /\ cb.done > 0
    /\ cb.bar = 100

(***************************************************************************)
(* C27  Reading streak: the result (n, start, end) has n the greatest      *)
(* number of consecutive calendar days among the distinct non-missing read *)
(* dates, start and end read dates that bound such a run, n - 1 days       *)
(* apart; it is (0, None, None) exactly when there is no non-missing date. *)
(***************************************************************************)
ReadDates == Range(DropNa(streak.arg.col))

IsRun(a, n) == \A d \in a..(a + n - 1) : d \in ReadDates

C27_ReadingStreak ==
    streak.k = "called" =>
        LET n == streak.out[1]
            start == streak.out[2]
            end == streak.out[3]
        IN /\ ReadDates = {} <=> streak.out = <<0, None, None>>
           /\ ReadDates # {} =>
                 /\ start \in ReadDates /\ end \in ReadDates
                 /\ end - start = n - 1
                 /\ IsRun(start, n)
                 /\ \A a \in ReadDates : ~IsRun(a, n + 1)

C27_Witness ==
    /\ streak.k = "called"
    /\ 1 \in ReadDates
    /\ streak.out = <<2, 3, 4>>

(***************************************************************************)
(* C25  Genre round trip: for the table the dashboard stores after         *)
(* enrichment, the chart counts every genre tag as often as it occurs in   *)
(* the fetched lists of the rows.                                          *)
(***************************************************************************)
Occurrences(seq, x) == Cardinality({i \in DOMAIN seq : seq[i] = x})

FetchedTags ==
    Concat([i \in DOMAIN chart.fetched |->
               IF chart.fetched[i].t = "list" THEN chart.fetched[i].v ELSE <<>>])

C25_GenreRoundTrip ==
    chart.k = "drawn" =>
        \A g \in Range(FetchedTags) \cup Range(chart.counted) :
            Occurrences(chart.counted, g) = Occurrences(FetchedTags, g)

(***************************************************************************)
(* C26  Session-state freshness: while a file is uploaded, the table shown *)
(* and used for genres and download comes from that file, an enriched      *)
(* table in the session state was made from it, and the name used for the  *)
(* download is its name.                                                   *)
(***************************************************************************)
C26_SessionFreshness ==
    (session.k = "session" /\ session.uploaded # NoFile) =>
        /\ display_df = session.uploaded
        /\ enriched_present => session.enriched_df = session.uploaded
        /\ session.uploaded_file_name = session.uploaded.name
        /\ DownloadOffered => download_name = session.uploaded.name

====
